---- MODULE Spec2Model ----
(***************************************************************************)
(* Model of scc.py: read_graph builds a networkx DiGraph from the node and *)
(* link tuples, strongly_connected_components partitions it, names each    *)
(* component with component_name and stores the name in the 'component'    *)
(* attribute of the member nodes.                                          *)
(*                                                                         *)
(* A string of the program is a sequence of one-character strings, so that *)
(* label[0], f'C{num}' and ''.join(...) are computed, not assumed.  An     *)
(* attribute (label, component) is a function whose DOMAIN is the set of   *)
(* nodes that carry the attribute, as nx.get_node_attributes returns it.   *)
(***************************************************************************)
EXTENDS Integers, Sequences, FiniteSets, TLC

\* Bounds of the model: distinct identifiers the node file declares, distinct
\* edges the link file holds (a repeated line of either file is always
\* allowed), calls of strongly_connected_components on the built graph.
MaxDeclared == 2
MaxEdges == 3
MaxCalls == 2

\* Node identifiers and names the two files may hold.  iter_csv drops blank
\* fields, so a name or an identifier is never the empty string.
Ids == {"1", "2", "3"}
Names == {<<"A", "l">>, <<"B", "o">>}

\* Values tried for the naming argument: the four strategies, one of their
\* abbreviations, and an identifier NAMING_METHODS does not know.
NamingArgs == {"string", "initials", "cardinal", "ordinal", "i", "roman"}

VARIABLES
    phase,       \* "nodes", "links": read_graph's two loops; "frozen": graph returned
    number,      \* read_graph's number argument
    declared,    \* history: the identifiers the node file has given so far
    order,       \* nodes of the graph in insertion order (iteration order of G)
    label,       \* the 'label' attribute: node -> label, for the nodes that have one
    succ,        \* adjacency: node -> successors in insertion order (G[v])
    component,   \* the 'component' attribute: node -> name, for the tagged nodes
    nCalls,      \* calls of strongly_connected_components made so far
    prev,        \* branch, outcome and registry of the call before the last one
    last         \* record of the last call of strongly_connected_components

vars == <<phase, number, declared, order, label, succ, component, nCalls, prev, last>>

\* ------------------------------------------------------------ helpers

Range(s) == {s[k] : k \in 1..Len(s)}

Empty == <<>>

\* d with key k set to v (dict assignment d[k] = v).
Put(d, k, v) == [x \in DOMAIN d \cup {k} |-> IF x = k THEN v ELSE d[x]]

Reverse(s) == [k \in 1..Len(s) |-> s[Len(s) + 1 - k]]

\* All iteration orders of a Python set: the sequences that list it once.
Perms(S) == {p \in [1..Cardinality(S) -> S] : Range(p) = S}

\* ------------------------------------------------------------ read_graph

\* f'{name} ({ident})' if number else name
LabelOf(name, ident, num) ==
    IF num THEN name \o <<" ", "(", ident, ")">> ELSE name

\* graph.add_node(ident, label=...): a new node goes last in the iteration
\* order with no successors; a known one keeps its place and edges.
ReadNode(name, ident) ==
    /\ phase = "nodes"
    /\ ident \in DOMAIN label \/ Cardinality(DOMAIN label) < MaxDeclared
    /\ order' = IF ident \in Range(order) THEN order ELSE Append(order, ident)
    /\ succ' = IF ident \in DOMAIN succ THEN succ ELSE Put(succ, ident, <<>>)
    /\ label' = Put(label, ident, LabelOf(name, ident, number))
    /\ declared' = declared \cup {ident}
    /\ UNCHANGED <<phase, number, component, nCalls, prev, last>>

\* DiGraph.add_edge(u, v): u, then v, is created with no attribute when new;
\* v is appended to u's successors unless the edge is already there.
AddEdgeOrder(ord, u, v) ==
    LET o1 == IF u \in Range(ord) THEN ord ELSE Append(ord, u)
    IN  IF v \in Range(o1) THEN o1 ELSE Append(o1, v)

AddEdgeSucc(adj, u, v) ==
    LET a1 == IF u \in DOMAIN adj THEN adj ELSE Put(adj, u, <<>>)
        a2 == IF v \in DOMAIN a1 THEN a1 ELSE Put(a1, v, <<>>)
    IN  IF v \in Range(a2[u]) THEN a2 ELSE [a2 EXCEPT ![u] = Append(@, v)]

HasEdge(adj, u, v) == u \in DOMAIN adj /\ v \in Range(adj[u])

Edges(adj) == {e \in (DOMAIN adj) \X (DOMAIN adj) : HasEdge(adj, e[1], e[2])}

ReadLink(id_tail, id_head) ==
    /\ phase \in {"nodes", "links"}
    /\ HasEdge(succ, id_tail, id_head) \/ Cardinality(Edges(succ)) < MaxEdges
    /\ phase' = "links"
    /\ order' = AddEdgeOrder(order, id_tail, id_head)
    /\ succ' = AddEdgeSucc(succ, id_tail, id_head)
    /\ UNCHANGED <<number, declared, label, component, nCalls, prev, last>>

\* return nx.freeze(graph): no node or edge can be added afterwards.
Freeze ==
    /\ phase \in {"nodes", "links"}
    /\ phase' = "frozen"
    /\ UNCHANGED <<number, declared, order, label, succ, component, nCalls, prev, last>>

\* ------------------------------------- nx.strongly_connected_components

Min2(a, b) == IF a < b THEN a ELSE b

\* State of the generator before the first source is looked at.
SccStart(nodes) ==
    [preorder |-> Empty, lowlink |-> Empty, scc_found |-> {}, scc_queue |-> <<>>,
     i |-> 0, pos |-> [v \in Range(nodes) |-> 0], queue |-> <<>>, out |-> <<>>]

\* for w in neighbors[v]: the iterator of v's successors resumes after the
\* last successor it gave; the index of the first one with no preorder, or 0.
NextNew(adj, st, v) ==
    LET new == {k \in (st.pos[v] + 1)..Len(adj[v]) : adj[v][k] \notin DOMAIN st.preorder}
    IN  IF new = {} THEN 0 ELSE CHOOSE k \in new : \A j \in new : k <= j

\* lowlink[v] after the loop over G[v].
RECURSIVE LowLink(_, _, _, _, _)
LowLink(adj, st, v, k, low) ==
    IF k > Len(adj[v]) THEN low
    ELSE LET w == adj[v][k]
         IN  IF w \in st.scc_found THEN LowLink(adj, st, v, k + 1, low)
             ELSE IF st.preorder[w] > st.preorder[v]
                  THEN LowLink(adj, st, v, k + 1, Min2(low, st.lowlink[w]))
                  ELSE LowLink(adj, st, v, k + 1, Min2(low, st.preorder[w]))

\* while scc_queue and preorder[scc_queue[-1]] > preorder[v]: scc.add(pop())
RECURSIVE PopScc(_, _, _, _)
PopScc(st, v, q, scc) ==
    IF Len(q) > 0 /\ st.preorder[q[Len(q)]] > st.preorder[v]
    THEN PopScc(st, v, SubSeq(q, 1, Len(q) - 1), scc \cup {q[Len(q)]})
    ELSE [scc_queue |-> q, scc |-> scc]

\* One pass of `while queue`, v = queue[-1].
SccStep(adj, st) ==
    LET v  == st.queue[Len(st.queue)]
        s1 == IF v \in DOMAIN st.preorder THEN st
              ELSE [st EXCEPT !.i = @ + 1, !.preorder = Put(@, v, st.i + 1)]
        k  == NextNew(adj, s1, v)
    IN  IF k # 0
        THEN [s1 EXCEPT !.pos[v] = k, !.queue = Append(@, adj[v][k])]
        ELSE LET low == LowLink(adj, s1, v, 1, s1.preorder[v])
                 s2  == [s1 EXCEPT !.pos[v] = Len(adj[v]),
                                   !.lowlink = Put(@, v, low),
                                   !.queue = SubSeq(@, 1, Len(@) - 1)]
             IN  IF low = s1.preorder[v]
                 THEN LET p == PopScc(s2, v, s2.scc_queue, {v})
                      IN  [s2 EXCEPT !.scc_queue = p.scc_queue,
                                     !.scc_found = @ \cup p.scc,
                                     !.out = Append(@, p.scc)]
                 ELSE [s2 EXCEPT !.scc_queue = Append(@, v)]

RECURSIVE SccWhile(_, _)
SccWhile(adj, st) ==
    IF st.queue = <<>> THEN st ELSE SccWhile(adj, SccStep(adj, st))

\* for source in G: if source not in scc_found: queue = [source]; while queue
RECURSIVE SccFor(_, _, _, _)
SccFor(nodes, adj, k, st) ==
    IF k > Len(nodes) THEN st
    ELSE IF nodes[k] \in st.scc_found THEN SccFor(nodes, adj, k + 1, st)
    ELSE SccFor(nodes, adj, k + 1, SccWhile(adj, [st EXCEPT !.queue = <<nodes[k]>>]))

\* The components in the order the generator yields them.
SccYield(nodes, adj) == SccFor(nodes, adj, 1, SccStart(nodes)).out

\* --------------------------------------------------------- component_name

NAMING_METHODS ==
    [m \in {"string", "str", "s"} |-> "string"] @@
    [m \in {"initials", "init", "ini", "i"} |-> "initials"] @@
    [m \in {"cardinal", "card", "c"} |-> "cardinal"] @@
    [m \in {"ordinal", "ord", "o"} |-> "ordinal"]

\* As NamingGet, with 'string' as the default of the lookup.
NamingGetDefault(method) ==
    IF method \in DOMAIN NAMING_METHODS THEN NAMING_METHODS[method] ELSE "string"

\* NAMING_METHODS.get(method): the strategy, or None.
NamingGet(method) ==
    IF method \in DOMAIN NAMING_METHODS THEN NAMING_METHODS[method] ELSE "None"

Digits == <<"0", "1", "2", "3", "4", "5", "6", "7", "8", "9">>

\* str(num) for num >= 0: its decimal digits.
RECURSIVE Decimal(_)
Decimal(num) ==
    IF num < 10 THEN <<Digits[num + 1]>>
    ELSE Decimal(num \div 10) \o <<Digits[(num % 10) + 1]>>

Cardinals == <<"one", "two", "three", "four", "five", "six", "seven", "eight", "nine">>
Ordinals == <<"first", "second", "third", "fourth", "fifth", "sixth", "seventh", "eighth", "ninth">>

\* num2words(n, to=word) for the numbers a graph of the model can reach.
num2words(n, word) ==
    IF word = "cardinal" THEN <<Cardinals[n]>> ELSE <<Ordinals[n]>>

Return(name) == [ok |-> TRUE, name |-> name, error |-> "none"]
Raise(error) == [ok |-> FALSE, name |-> <<>>, error |-> error]

\* ''.join(graph.nodes[s]['label'][0] for s in nodes), nodes in the order
\* the set is iterated: a node with no 'label' attribute raises KeyError.
Initials(lab, nodes) ==
    IF \E k \in 1..Len(nodes) : nodes[k] \notin DOMAIN lab THEN Raise("KeyError")
    ELSE Return([k \in 1..Len(nodes) |-> Head(lab[nodes[k]])])

component_name(lab, num, nodes, method) ==
    LET m == NamingGet(method)
    IN  CASE m = "string" -> Return(<<"C">> \o Decimal(num))
          [] m = "initials" -> Initials(lab, nodes)
          [] m \in {"cardinal", "ordinal"} -> Return(num2words(num + 1, m))
          [] OTHER -> Raise("ValueError")

\* ------------------------------------------ strongly_connected_components

\* nx.get_node_attributes(graph, 'component')
GetComponentAttributes(comp) == comp

\* The branch taken: extract from the attributes if the dict is not empty.
FromAttributes(node_component) == DOMAIN node_component # {}

\* As Extract, with output[comp_name] = {node} in place of comp.add(node).
ExtractOverwrite(node_component) ==
    [c \in {node_component[n] : n \in DOMAIN node_component} |->
        {CHOOSE n \in DOMAIN node_component : node_component[n] = c}]

\* for node, comp_name in node_component.items(): output[comp_name] gets node
Extract(node_component) ==
    [c \in {node_component[n] : n \in DOMAIN node_component} |->
        {n \in DOMAIN node_component : node_component[n] = c}]

\* nx.set_node_attributes(graph, {node: comp_name for node in comp_nodes}, 'component')
SetComponent(comp, comp_nodes, comp_name) ==
    [n \in DOMAIN comp \cup comp_nodes |-> IF n \in comp_nodes THEN comp_name ELSE comp[n]]

\* As Components, in the order of a topological sort of the condensation.
ComponentsTopological(nodes, adj) == Reverse(SccYield(nodes, adj))

\* components = nx.algorithms.strongly_connected_components(graph)
Components(nodes, adj) == SccYield(nodes, adj)

\* The loop over enumerate(components) from its k-th component on; iter[k]
\* is the order in which the k-th set is iterated.  An error raised by
\* component_name ends the call with the tags written so far.
RECURSIVE NameLoop(_, _, _, _, _, _)
NameLoop(lab, comps, iter, naming, k, acc) ==
    IF k > Len(comps) THEN [acc EXCEPT !.status = "returned"]
    ELSE LET r == component_name(lab, k - 1, iter[k], naming)
         IN  IF ~r.ok THEN [acc EXCEPT !.status = r.error, !.output = Empty]
             ELSE NameLoop(lab, comps, iter, naming, k + 1,
                           [acc EXCEPT !.component = SetComponent(@, comps[k], r.name),
                                       !.output = Put(@, r.name, comps[k])])

\* The iteration orders the sets of comps can have.
IterOrders(comps) ==
    {it \in [1..Len(comps) -> UNION {Perms(comps[k]) : k \in 1..Len(comps)}] :
        \A k \in 1..Len(comps) : Range(it[k]) = comps[k]}

NoCall == [naming |-> "", path |-> "none", status |-> "none", before |-> Empty,
           output |-> Empty]

Init ==
    /\ phase = "nodes"
    /\ number \in BOOLEAN
    /\ declared = {}
    /\ order = <<>>
    /\ label = Empty
    /\ succ = Empty
    /\ component = Empty
    /\ nCalls = 0
    /\ prev = [path |-> "none", status |-> "none", output |-> Empty]
    /\ last = NoCall

Record(naming, path, status, before, output) ==
    [naming |-> naming, path |-> path, status |-> status, before |-> before,
     output |-> output]

strongly_connected_components(naming) ==
    /\ phase = "frozen"
    /\ nCalls < MaxCalls
    /\ nCalls' = nCalls + 1
    /\ prev' = [path |-> last.path, status |-> last.status, output |-> last.output]
    /\ LET node_component == GetComponentAttributes(component)
       IN  IF FromAttributes(node_component)
           THEN /\ last' = Record(naming, "attributes", "returned", component,
                                  Extract(node_component))
                /\ UNCHANGED component
           ELSE LET comps == Components(order, succ)
                IN  \E iter \in IterOrders(comps) :
                        LET run == NameLoop(label, comps, iter, naming, 1,
                                            [component |-> component, output |-> Empty,
                                             status |-> "running"])
                        IN  /\ component' = run.component
                            /\ last' = Record(naming, "computed", run.status,
                                              component, run.output)
    /\ UNCHANGED <<phase, number, declared, order, label, succ>>

Next ==
    \/ \E name \in Names, ident \in Ids : ReadNode(name, ident)
    \/ \E id_tail \in Ids, id_head \in Ids : ReadLink(id_tail, id_head)
    \/ Freeze
    \/ \E naming \in NamingArgs : strongly_connected_components(naming)

Spec == Init /\ [][Next]_vars

\* ------------------------------------------------------------ properties

Nodes == Range(order)

\* v is reachable from u by a directed path (of length 0 or more).
Reachable(u, v) ==
    LET R[k \in 0..Cardinality(Nodes)] ==
            IF k = 0 THEN {u}
            ELSE R[k - 1] \cup {w \in Nodes : \E x \in R[k - 1] : HasEdge(succ, x, w)}
    IN  v \in R[Cardinality(Nodes)]

Mutual(u, v) == Reachable(u, v) /\ Reachable(v, u)

\* The strongly connected components of the graph, from the definition.
SccSets == {{v \in Nodes : Mutual(u, v)} : u \in Nodes}

Members(output) == UNION {output[c] : c \in DOMAIN output}

SameEntry(output, u, v) == \E c \in DOMAIN output : u \in output[c] /\ v \in output[c]

SameTag(u, v) ==
    u \in DOMAIN component /\ v \in DOMAIN component /\ component[u] = component[v]

\* The last call ran on a graph with no tag, and returned.
ComputedAndReturned == last.path = "computed" /\ last.status = "returned"

\* The name 'string' gives to the component of index i.
StringName(i) == <<"C">> \o Decimal(i)

\* C1 (as claimed): when strongly_connected_components runs on the untagged
\* graph and returns, under any strategy, the member sets of the registry
\* cover the node set and are pairwise disjoint.
C1_PartitionLaw ==
    ComputedAndReturned =>
        /\ Members(last.output) = Nodes
        /\ \A c, d \in DOMAIN last.output :
               c # d => last.output[c] \cap last.output[d] = {}

\* C2 (as claimed): after a run on the untagged graph, two nodes are in the
\* same registry entry, and carry the same tag, exactly when each is
\* reachable from the other.
C2_MutualReachability ==
    ComputedAndReturned =>
        \A u, v \in Nodes :
            /\ SameEntry(last.output, u, v) <=> Mutual(u, v)
            /\ SameTag(u, v) <=> Mutual(u, v)

\* C3 (as claimed): if a call on the untagged graph returns R1, the next
\* call on the same graph returns a registry identical to R1.
C3_Idempotence ==
    (prev.path = "computed" /\ prev.status = "returned" /\ last.status = "returned")
        => last.output = prev.output

\* C4 (as claimed): the registry is rebuilt from the tags only if every node
\* carries a tag, and then covers every node; with a node left untagged the
\* tags count as absent and the computation runs.
C4_TagsUsedOnlyWhenComplete ==
    /\ last.path = "attributes" =>
           (DOMAIN last.before = Nodes /\ Members(last.output) = Nodes)
    /\ (last.status # "none" /\ DOMAIN last.before # Nodes) => last.path = "computed"

\* C5 (as claimed): at the end of a call on the untagged graph, returned or
\* failed, either every node carries a tag or none does.
C5_TaggingAllOrNothing ==
    last.path = "computed" => (DOMAIN component = Nodes \/ DOMAIN component = {})

\* C6 (as claimed): every call with an identifier outside string, initials,
\* cardinal, ordinal fails with the unknown-method error and leaves the
\* tags unchanged.
C6_OutsideTheFourFails ==
    (last.status # "none"
     /\ last.naming \notin {"string", "initials", "cardinal", "ordinal"})
        => (last.status = "ValueError" /\ component = last.before)

\* C6 (amended): for every call with an identifier that is not a key of
\* NAMING_METHODS, component_name raises ValueError, and gives no name,
\* whatever the index and the members; the call leaves the tags unchanged,
\* and fails with ValueError when the graph has a node and no tag.
C6_UnknownKeyFails ==
    (last.status # "none" /\ last.naming \notin DOMAIN NAMING_METHODS) =>
        /\ \A num \in 0..Cardinality(Nodes), S \in SUBSET Nodes :
               \A nodes \in Perms(S) :
                   component_name(label, num, nodes, last.naming) = Raise("ValueError")
        /\ component = last.before
        /\ (last.path = "computed" /\ Nodes # {}) => last.status = "ValueError"
        /\ last.status \in {"ValueError", "returned"}

\* C6 witness: a call with an unknown identifier on an untagged graph with
\* two components has failed with ValueError.
C6_Witness ==
    /\ last.naming = "roman"
    /\ last.path = "computed"
    /\ last.status = "ValueError"
    /\ Cardinality(SccSets) >= 2

\* C7: a call on a graph that carries tags changes no tag, label, node or
\* edge, whatever the naming argument, and returns the registry that maps
\* each tag value to exactly the nodes carrying it.
C7_MemoizedPathIsPure ==
    [][(phase = "frozen" /\ DOMAIN component # {}) =>
          /\ component' = component
          /\ label' = label
          /\ order' = order
          /\ succ' = succ
          /\ last'.status = "returned"
          /\ DOMAIN last'.output = {component[n] : n \in DOMAIN component}
          /\ \A c \in DOMAIN last'.output :
                 last'.output[c] = {n \in DOMAIN component : component[n] = c}]_vars

\* C7 witness: a call with an unknown naming argument has rebuilt, from the
\* tags, a registry with a component of two nodes and another component.
C7_Witness ==
    /\ last.path = "attributes"
    /\ last.naming = "roman"
    /\ Cardinality(DOMAIN last.output) >= 2
    /\ \E c \in DOMAIN last.output : Cardinality(last.output[c]) >= 2

\* C8 (as claimed): every identifier known only from an edge is in the
\* built graph with a 'label' attribute that is the empty string, and after
\* a call on the untagged graph it is a member of exactly one component.
C8_AutoCreatedHasEmptyLabel ==
    /\ phase = "frozen" =>
           \A n \in Nodes \ declared : n \in DOMAIN label /\ label[n] = <<>>
    /\ last.path = "computed" =>
           \A n \in Nodes \ declared :
               Cardinality({c \in DOMAIN last.output : n \in last.output[c]}) = 1

\* C9: under 'string', for every edge u -> v whose endpoints are in
\* different components, named Ci (of u) and Cj (of v), j < i.
C9_ReverseTopologicalOrder ==
    (ComputedAndReturned /\ last.naming = "string") =>
        \A u, v \in Nodes : \A i, j \in 0..Cardinality(Nodes) :
            (/\ HasEdge(succ, u, v)
             /\ component[u] = StringName(i)
             /\ component[v] = StringName(j)
             /\ i # j) => j < i

\* C9 witness: a 'string' run has returned on a graph with a path through
\* three components.
C9_Witness ==
    /\ ComputedAndReturned
    /\ last.naming = "string"
    /\ \E u, v, w \in Nodes :
           /\ HasEdge(succ, u, v) /\ HasEdge(succ, v, w)
           /\ Cardinality({component[u], component[v], component[w]}) = 3

\* C10 (as claimed): after a call on the untagged graph that returns under
\* a recognized strategy, every node is tagged, the registry has one entry
\* per strongly connected component, and the members under each name are
\* exactly the nodes tagged with it.
C10_TagsMatchRegistry ==
    (ComputedAndReturned /\ last.naming \in DOMAIN NAMING_METHODS) =>
        /\ DOMAIN component = Nodes
        /\ Cardinality(DOMAIN last.output) = Cardinality(SccSets)
        /\ \A c \in DOMAIN last.output :
               last.output[c] = {n \in Nodes : component[n] = c}
====
